---- MODULE Spec2Model ----
(***************************************************************************)
(* Model of src/bot.py: a Telegram bot that relays text messages to the    *)
(* Cerebras chat-completion API and sends the answer back in chunks.       *)
(*                                                                         *)
(* A Python str is a sequence of one-character strings; an Optional[str]   *)
(* is a record [none, s].  The remote API, the Telegram transport and the  *)
(* Cerebras constructor are the environment: their outcomes are chosen     *)
(* nondeterministically.                                                   *)
(***************************************************************************)
EXTENDS Integers, Sequences, FiniteSets, TLC

VARIABLES config, main_pc, exit_status, dispatched, upd, pc, exc, worker,
          api, ai_response, x, calls, errlog

vars == <<config, main_pc, exit_status, dispatched, upd, pc, exc, worker,
          api, ai_response, x, calls, errlog>>

-----------------------------------------------------------------------------
(* Bounds of the model *)

\* number of updates the platform delivers in one run
NumUpdates == 2
\* the longest completion texts span MaxChunks chunks
MaxChunks == 3

-----------------------------------------------------------------------------
(* Python values *)

None == [none |-> TRUE, s |-> <<>>]
Str(s) == [none |-> FALSE, s |-> s]

\* bool(v) of an Optional[str]: None and "" are falsy
Truthy(v) == ~v.none /\ Len(v.s) > 0

\* str(v) as an f-string renders it
Format(v) == IF v.none THEN <<"N", "o", "n", "e">> ELSE v.s

\* s[a:b] of a str, with Python's clamping of the upper index
Slice(s, a, b) == SubSeq(s, a + 1, IF b < Len(s) THEN b ELSE Len(s))

\* sub occurs in s as a contiguous substring
Contains(s, sub) ==
    \E i \in 0..(Len(s) - Len(sub)) : SubSeq(s, i + 1, i + Len(sub)) = sub

-----------------------------------------------------------------------------
(* Program constants *)

\* Telegram's message limit used by the splitter
ChunkSize == 4096

\* the fixed fallback string; a character outside ASCII is written "U+<code point>"
FALLBACK ==
    <<"U+26A0", "U+FE0F", " ", "I", " ", "e", "n", "c", "o", "u", "n", "t", "e", "r", "e", "d",
      " ", "a", "n", " ", "e", "r", "r", "o", "r", " ", "w", "h", "i", "l", "e", " ",
      "p", "r", "o", "c", "e", "s", "s", "i", "n", "g", " ", "y", "o", "u", "r", " ",
      "r", "e", "q", "u", "e", "s", "t", ".", " ", "P", "l", "e", "a", "s", "e", " ",
      "t", "r", "y", " ", "a", "g", "a", "i", "n", " ", "l", "a", "t", "e", "r", ".">>

TOKEN_PLACEHOLDER ==
    <<"Y", "O", "U", "R", "_", "T", "E", "L", "E", "G", "R", "A", "M", "_", "B", "O",
      "T", "_", "T", "O", "K", "E", "N", "_", "H", "E", "R", "E">>

\* start() with the model identifier left out of the greeting
WelcomeTextNoModel(user_first_name, model_id) ==
    <<"H", "e", "l", "l", "o", ",", " ">> \o user_first_name
    \o <<"!", " ", "U+1F916", "\n", "\n">>
    \o <<"I", " ", "a", "m", " ", "a", "n", " ", "A", "I", " ", "B", "o", "t", ".">>

\* the f-string of start()
WelcomeText(user_first_name, model_id) ==
    <<"H", "e", "l", "l", "o", ",", " ">> \o user_first_name
    \o <<"!", " ", "U+1F916", "\n", "\n">>
    \o <<"I", " ", "a", "m", " ", "a", "n", " ", "A", "I", " ", "B", "o", "t", " ", "p",
         "o", "w", "e", "r", "e", "d", " ", "b", "y", " ", "t", "h", "e", " ", "h", "y",
         "p", "e", "r", "-", "f", "a", "s", "t", " ", "*", "*", "C", "e", "r", "e", "b",
         "r", "a", "s", " ">> \o Format(model_id)
    \o <<"*", "*", ".", "\n", "\n">>
    \o <<"A", "s", "k", " ", "m", "e", " ", "a", "n", "y", "t", "h", "i", "n", "g", ",",
         " ", "a", "n", "d", " ", "I", " ", "w", "i", "l", "l", " ", "g", "e", "n", "e",
         "r", "a", "t", "e", " ", "c", "o", "d", "e", ",", " ", "s", "u", "m", "m", "a",
         "r", "i", "z", "e", " ", "t", "e", "x", "t", ",", " ", "o", "r", " ", "a", "n",
         "s", "w", "e", "r", " ", "q", "u", "e", "s", "t", "i", "o", "n", "s", " ", "i",
         "n", "s", "t", "a", "n", "t", "l", "y", ".">>

-----------------------------------------------------------------------------
(* Inputs *)

ValidToken == Str(<<"1", "2", ":", "A", "b">>)
ValidKey == Str(<<"c", "s", "k">>)
ValidModel == Str(<<"l", "l", "a", "m", "a", "3">>)

\* config.py as the operator may have left it: each value valid, missing or empty,
\* the token possibly still the placeholder
Configs ==
    [TELEGRAM_BOT_TOKEN : {ValidToken, None, Str(<<>>), Str(TOKEN_PLACEHOLDER)},
     CEREBRAS_API_KEY : {ValidKey, None, Str(<<>>)},
     MODEL_ID : {ValidModel, None, Str(<<>>)}]

Users == {[chat |-> 1, first_name |-> <<"A", "l">>],
          [chat |-> 2, first_name |-> <<"B", "o">>]}

\* message.text of an incoming update
UpdateTexts == {None, Str(<<>>), Str(<<"H", "e", "l", "l", "o">>),
                Str(<<"/", "s", "t", "a", "r", "t">>), Str(<<"/", "h", "e", "l", "p">>)}

Alphabet == <<"a", "b", "c", "d", "e", "f", "g">>

\* a generated text of length L; its period does not divide ChunkSize
Text(L) == [i \in 1..L |-> Alphabet[(i % 7) + 1]]

ResultLens ==
    {0, 1} \cup {k * ChunkSize + d : k \in 1..(MaxChunks - 1), d \in {0, 1}}
           \cup {(MaxChunks - 1) * ChunkSize + 808}

\* what the remote API does with one request
ApiOutcomes ==
    {[kind |-> "raise", len |-> 0], [kind |-> "nochoices", len |-> 0],
     [kind |-> "null", len |-> 0]}
    \cup {[kind |-> "text", len |-> L] : L \in ResultLens}

NoOutcome == [kind |-> "none", len |-> 0]

\* the object client.chat.completions.create hands back (or its raising)
ApiResponse(o) ==
    [raises |-> o.kind = "raise",
     choices |-> CASE o.kind = "text" -> <<[content |-> Str(Text(o.len))]>>
                   [] o.kind = "null" -> <<[content |-> None]>>
                   [] OTHER -> <<>>]

U == 1..NumUpdates

NoUpdate == [chat |-> 0, first_name |-> <<>>, text |-> None]
IdleWorker == [state |-> "idle", result |-> None]

-----------------------------------------------------------------------------
(* Pure functions of the program *)

\* get_cerebras_response whose except branch logs and falls off the end
GetCerebrasResponseNoReturn(resp) ==
    IF resp.raises \/ Len(resp.choices) = 0
    THEN [ret |-> None, logged |-> TRUE]
    ELSE [ret |-> resp.choices[1].content, logged |-> FALSE]

\* get_cerebras_response: the value returned and whether logger.error ran
GetCerebrasResponse(resp) ==
    IF resp.raises \/ Len(resp.choices) = 0
    THEN [ret |-> Str(FALLBACK), logged |-> TRUE]
    ELSE [ret |-> resp.choices[1].content, logged |-> FALSE]

\* a token check that only looks for the placeholder
TokenRejectedPlaceholderOnly(t) == t = Str(TOKEN_PLACEHOLDER)

\* `not config.TELEGRAM_BOT_TOKEN or config.TELEGRAM_BOT_TOKEN == "YOUR_..."`
TokenRejected(t) == ~Truthy(t) \/ t = Str(TOKEN_PLACEHOLDER)

\* Cerebras(api_key=k): a missing key falls back to the environment variable and
\* raises when that is unset too
ClientCtorOutcomes(k) == IF k.none THEN {"ok", "raise"} ELSE {"ok"}

\* `if user_text is None: return`
NotTextNoneOnly(user_text) == user_text.none

\* `if not user_text: return`
NotText(user_text) == ~Truthy(user_text)

IsCommand(text) == Truthy(text) /\ text.s[1] = "/"

\* CommandHandler('start', start) is added before the MessageHandler; the
\* MessageHandler's filter is taken to admit every non-command message
Route(text) ==
    IF IsCommand(text)
    THEN IF text.s = <<"/", "s", "t", "a", "r", "t">> THEN "start" ELSE "unhandled"
    ELSE "handle_message"

\* ApplicationBuilder().token(...).build(): concurrent_updates is left at its
\* default, so the update fetcher awaits each update's handlers before the next
ConcurrentUpdates == FALSE

\* first position of the handler the update is routed to
EntryPc(text) ==
    CASE Route(text) = "start" -> "start_reply"
      [] Route(text) = "unhandled" -> "done"
      [] OTHER -> IF NotText(text) THEN "done" ELSE "typing"

\* a slice one character short: ai_response[x:x+4095]
ChunkAtShort(s, off) ==
    IF Len(s) > ChunkSize THEN Slice(s, off, off + ChunkSize - 1) ELSE s

\* the chunk the reply step sends at offset off
ChunkAt(s, off) == IF Len(s) > ChunkSize THEN Slice(s, off, off + ChunkSize) ELSE s

\* a loop that stops after its first chunk
NextOffsetBreak(s, off) == Len(s)

\* offset after sending the chunk at off
NextOffset(s, off) == IF Len(s) > ChunkSize THEN off + ChunkSize ELSE Len(s)

\* replies addressed to the chat of the first update seen
ReplyChatFirst(u) == upd[1].chat

\* update.message.reply_text / update.effective_chat.id address the update's chat
ReplyChat(u) == upd[u].chat

Active(u) == pc[u] \notin {"queued", "done", "raised", "retired"}

\* the update fetcher may hand the next update to its handler
CanProcess == ConcurrentUpdates \/ \A v \in U : ~Active(v)

Call(u, op, chat, text, pm, ok) ==
    [u |-> u, op |-> op, chat |-> chat, text |-> text, parse_mode |-> pm, ok |-> ok]

-----------------------------------------------------------------------------
(* Initial state: the module is imported, nothing has run *)

Init ==
    /\ config \in Configs
    /\ main_pc = "init_client"
    /\ exit_status = -1
    /\ dispatched = 0
    /\ upd = [u \in U |-> NoUpdate]
    /\ pc = [u \in U |-> "queued"]
    /\ exc = [u \in U |-> "none"]
    /\ worker = [u \in U |-> IdleWorker]
    /\ api = [u \in U |-> NoOutcome]
    /\ ai_response = [u \in U |-> None]
    /\ x = [u \in U |-> 0]
    /\ calls = <<>>
    /\ errlog = <<>>

handler_vars == <<dispatched, upd, pc, exc, worker, api, ai_response, x, calls>>

\* module level: client = Cerebras(api_key=...) in try/except
ClientInit ==
    /\ main_pc = "init_client"
    /\ \E r \in ClientCtorOutcomes(config.CEREBRAS_API_KEY) :
         IF r = "raise"
         THEN /\ errlog' = Append(errlog, [level |-> "CRITICAL", u |-> 0])
              /\ main_pc' = "exited"
              /\ exit_status' = 1
         ELSE /\ main_pc' = "main"
              /\ UNCHANGED <<errlog, exit_status>>
    /\ UNCHANGED <<config, handler_vars>>

\* __main__: token check, build, add_handler, run_polling
Main ==
    /\ main_pc = "main"
    /\ IF TokenRejected(config.TELEGRAM_BOT_TOKEN)
       THEN /\ errlog' = Append(errlog, [level |-> "CRITICAL", u |-> 0])
            /\ main_pc' = "exited"
            /\ exit_status' = 1
       ELSE /\ main_pc' = "serving"
            /\ UNCHANGED <<errlog, exit_status>>
    /\ UNCHANGED <<config, handler_vars>>

\* f with the entries of the updates whose handling has ended reset to d: the
\* program keeps nothing of an update once its handler has returned or raised
Retire(f, d) == [v \in U |-> IF pc[v] \in {"done", "raised", "retired"} THEN d ELSE f[v]]

\* the application takes the next update off its queue and enters the handler
\* it is routed to, up to that handler's first await
Dispatch(u) ==
    /\ main_pc = "serving"
    /\ u = dispatched + 1
    /\ CanProcess
    /\ \E usr \in Users, t \in UpdateTexts :
         /\ upd' = [Retire(upd, NoUpdate) EXCEPT
                       ![u] = [chat |-> usr.chat, first_name |-> usr.first_name,
                               text |-> t]]
         /\ pc' = [Retire(pc, "retired") EXCEPT ![u] = EntryPc(t)]
    /\ dispatched' = u
    /\ exc' = Retire(exc, "none")
    /\ worker' = Retire(worker, IdleWorker)
    /\ api' = Retire(api, NoOutcome)
    /\ calls' = SelectSeq(calls, LAMBDA c : Active(c.u))
    /\ errlog' = SelectSeq(errlog, LAMBDA e : e.u = 0 \/ Active(e.u))
    /\ UNCHANGED <<config, main_pc, exit_status, ai_response, x>>

\* start(): await update.message.reply_text(welcome_text, parse_mode=MARKDOWN)
StartReply(u) ==
    /\ pc[u] = "start_reply"
    /\ \E ok \in BOOLEAN :
         /\ calls' = Append(calls, Call(u, "message", ReplyChat(u),
                              WelcomeText(upd[u].first_name, config.MODEL_ID),
                              "MARKDOWN", ok))
         /\ pc' = [pc EXCEPT ![u] = IF ok THEN "done" ELSE "raised"]
         /\ exc' = [exc EXCEPT ![u] = IF ok THEN "none" ELSE "TransportError"]
    /\ UNCHANGED <<config, main_pc, exit_status, dispatched, upd, worker, api,
                   ai_response, x, errlog>>

\* handle_message with the typing action not awaited: the executor job is
\* submitted although no typing action has completed
SendChatActionDetached(u) ==
    /\ pc[u] = "typing"
    /\ pc' = [pc EXCEPT ![u] = "awaiting"]
    /\ worker' = [worker EXCEPT ![u].state = "submitted"]
    /\ UNCHANGED <<config, main_pc, exit_status, dispatched, upd, exc, api, ai_response,
                   x, calls, errlog>>

\* handle_message: await send_chat_action(TYPING), then run_in_executor submits
\* get_cerebras_response to the default executor
SendChatAction(u) ==
    /\ pc[u] = "typing"
    /\ \E ok \in BOOLEAN :
         /\ calls' = Append(calls, Call(u, "typing", ReplyChat(u), <<>>, "", ok))
         /\ pc' = [pc EXCEPT ![u] = IF ok THEN "awaiting" ELSE "raised"]
         /\ exc' = [exc EXCEPT ![u] = IF ok THEN "none" ELSE "TransportError"]
         /\ worker' = [worker EXCEPT ![u].state = IF ok THEN "submitted" ELSE "idle"]
    /\ UNCHANGED <<config, main_pc, exit_status, dispatched, upd, api, ai_response,
                   x, errlog>>

\* worker thread: get_cerebras_response issues client.chat.completions.create
WorkerCall(u) ==
    /\ worker[u].state = "submitted"
    /\ worker' = [worker EXCEPT ![u].state = "inflight"]
    /\ calls' = Append(calls, Call(u, "completion", 0, upd[u].text.s, "", TRUE))
    /\ UNCHANGED <<config, main_pc, exit_status, dispatched, upd, pc, exc, api,
                   ai_response, x, errlog>>

\* worker thread: the remote call ends; get_cerebras_response returns
WorkerReturn(u) ==
    /\ worker[u].state = "inflight"
    /\ \E o \in ApiOutcomes :
         LET r == GetCerebrasResponse(ApiResponse(o)) IN
         /\ api' = [api EXCEPT ![u] = o]
         /\ worker' = [worker EXCEPT ![u] = [state |-> "returned", result |-> r.ret]]
         /\ errlog' = IF r.logged THEN Append(errlog, [level |-> "ERROR", u |-> u])
                      ELSE errlog
    /\ UNCHANGED <<config, main_pc, exit_status, dispatched, upd, pc, exc,
                   ai_response, x, calls>>

\* handle_message resumes: ai_response = <future result>; len(ai_response) > 4096
Resume(u) ==
    /\ pc[u] = "awaiting"
    /\ worker[u].state = "returned"
    /\ worker' = [worker EXCEPT ![u] = [state |-> "joined", result |-> None]]
    /\ IF worker[u].result.none
       THEN /\ pc' = [pc EXCEPT ![u] = "raised"]
            /\ exc' = [exc EXCEPT ![u] = "TypeError"]
            /\ UNCHANGED <<ai_response, x>>
       ELSE /\ pc' = [pc EXCEPT ![u] = "reply"]
            /\ ai_response' = [ai_response EXCEPT ![u] = worker[u].result]
            /\ x' = [x EXCEPT ![u] = 0]
            /\ UNCHANGED exc
    /\ UNCHANGED <<config, main_pc, exit_status, dispatched, upd, api, calls, errlog>>

\* handle_message: one await update.message.reply_text(...) of the reply step;
\* the handler's frame is dropped when it returns or raises
ReplyText(u) ==
    /\ pc[u] = "reply"
    /\ LET s == ai_response[u].s
           off == NextOffset(s, x[u])
       IN \E ok \in BOOLEAN :
            /\ calls' = Append(calls, Call(u, "message", ReplyChat(u),
                                           ChunkAt(s, x[u]), "", ok))
            /\ IF ok /\ off < Len(s)
               THEN /\ x' = [x EXCEPT ![u] = off]
                    /\ UNCHANGED <<pc, exc, ai_response>>
               ELSE /\ pc' = [pc EXCEPT ![u] = IF ok THEN "done" ELSE "raised"]
                    /\ exc' = [exc EXCEPT ![u] = IF ok THEN "none" ELSE "TransportError"]
                    /\ ai_response' = [ai_response EXCEPT ![u] = None]
                    /\ x' = [x EXCEPT ![u] = 0]
    /\ UNCHANGED <<config, main_pc, exit_status, dispatched, upd, worker, api, errlog>>

Next ==
    \/ ClientInit
    \/ Main
    \/ \E u \in U : Dispatch(u)
    \/ \E u \in U : StartReply(u)
    \/ \E u \in U : SendChatAction(u)
    \/ \E u \in U : WorkerCall(u)
    \/ \E u \in U : WorkerReturn(u)
    \/ \E u \in U : Resume(u)
    \/ \E u \in U : ReplyText(u)

Spec == Init /\ [][Next]_vars

-----------------------------------------------------------------------------
(* Observations of a run *)

\* the outbound calls of kind op issued on behalf of update u, in order
CallsOf(u, op) == SelectSeq(calls, LAMBDA c : c.u = u /\ c.op = op)

RECURSIVE ConcatTexts(_)
ConcatTexts(cs) == IF cs = <<>> THEN <<>> ELSE Head(cs).text \o ConcatTexts(Tail(cs))

\* the update has been handed to a handler and its record is still kept
Handled(u) == pc[u] \notin {"queued", "retired"}
Ended(u) == pc[u] \in {"done", "raised"}

\* the update is a non-command message / one with text content
IsMessage(u) == Handled(u) /\ (upd[u].text.none \/ upd[u].text.s = <<>>
                               \/ upd[u].text.s[1] # "/")
PassesTextFilter(u) == IsMessage(u) /\ ~upd[u].text.none /\ upd[u].text.s # <<>>
IsStart(u) == Handled(u) /\ upd[u].text = Str(<<"/", "s", "t", "a", "r", "t">>)

\* the completion result of update u, once the remote call has ended
HasResult(u) == api[u].kind # "none"
Result(u) == GetCerebrasResponse(ApiResponse(api[u])).ret

CeilDiv(a, b) == (a + b - 1) \div b

\* the i-th piece of s cut at multiples of ChunkSize
Piece(s, i) ==
    IF Len(s) <= ChunkSize THEN s
    ELSE [k \in 1..(IF i * ChunkSize <= Len(s) THEN ChunkSize
                    ELSE Len(s) - (i - 1) * ChunkSize) |-> s[(i - 1) * ChunkSize + k]]

-----------------------------------------------------------------------------
(* Claims *)

\* C1: whatever the remote API does, get_cerebras_response returns a non-empty,
\* non-null string (the first choice's content or the fallback).
C1_ReturnsNonEmptyString ==
    \A u \in U : worker[u].state = "returned" =>
        /\ ~worker[u].result.none
        /\ Len(worker[u].result.s) >= 1

\* C2: a completion result of length L >= 1 is sent as exactly ceil(L/4096)
\* chunks, each of at most 4096 characters, whose concatenation in the order
\* sent is the result; no reply of the text handler ever exceeds 4096 characters.
C2_Chunking ==
    \A u \in U : PassesTextFilter(u) =>
        LET msgs == CallsOf(u, "message") IN
        /\ \A i \in 1..Len(msgs) : Len(msgs[i].text) <= ChunkSize
        /\ (pc[u] = "done" /\ HasResult(u) /\ ~Result(u).none /\ Len(Result(u).s) >= 1) =>
              /\ Len(msgs) = CeilDiv(Len(Result(u).s), ChunkSize)
              /\ ConcatTexts(msgs) = Result(u).s

C2_Witness ==
    \E u \in U :
        /\ pc[u] = "done"
        /\ api[u] = [kind |-> "text", len |-> (MaxChunks - 1) * ChunkSize + 808]
        /\ Len(CallsOf(u, "message")) = MaxChunks
        /\ Len(CallsOf(u, "message")[MaxChunks].text) = 808

\* C3: when the remote call raises, the client returns the fallback string and
\* logs one error; the handler sends at most one reply, equal to the fallback,
\* exactly one once it has ended, and it never fails on the result itself.
C3_ApiFailure ==
    \A u \in U : (PassesTextFilter(u) /\ api[u].kind = "raise") =>
        LET msgs == CallsOf(u, "message") IN
        /\ worker[u].state = "returned" => worker[u].result = Str(FALLBACK)
        /\ Len(SelectSeq(errlog, LAMBDA e : e.u = u /\ e.level = "ERROR")) = 1
        /\ exc[u] # "TypeError"
        /\ Len(msgs) <= 1
        /\ \A i \in 1..Len(msgs) : msgs[i].text = FALLBACK /\ msgs[i].chat = upd[u].chat
        /\ Ended(u) => Len(msgs) = 1
        /\ pc[u] = "done" => msgs[1].ok

C3_Witness ==
    \E u \in U : /\ api[u].kind = "raise"
                 /\ pc[u] = "done"
                 /\ CallsOf(u, "message")[1].text = FALLBACK

\* C4: a message without text content (absent or empty) that reaches the text
\* handler causes no outbound call, no completion request and no log record.
C4_NoText ==
    \A u \in U : (IsMessage(u) /\ ~PassesTextFilter(u)) =>
        /\ \A i \in 1..Len(calls) : calls[i].u # u
        /\ \A i \in 1..Len(errlog) : errlog[i].u # u
        /\ worker[u].state = "idle"
        /\ pc[u] = "done"

C4_Witness ==
    /\ \E u \in U : pc[u] = "done" /\ IsMessage(u) /\ upd[u].text = None
    /\ dispatched = NumUpdates

\* C5 as stated: every message that passes the text filter gets exactly one
\* completion request and its result fully transmitted before its handling
\* ends, also when an outbound call fails.
C5_Original ==
    \A u \in U : (PassesTextFilter(u) /\ Ended(u)) =>
        LET msgs == CallsOf(u, "message") IN
        /\ Len(CallsOf(u, "completion")) = 1
        /\ HasResult(u) /\ ~Result(u).none
        /\ Len(msgs) >= 1
        /\ \A i \in 1..Len(msgs) : msgs[i].ok
        /\ ConcatTexts(msgs) = Result(u).s

\* C5 amended: never more than one completion request per message; when the
\* handler returns normally exactly one was issued and its result was fully
\* transmitted, every chunk delivered.
C5_Amended ==
    \A u \in U : PassesTextFilter(u) =>
        LET msgs == CallsOf(u, "message") IN
        /\ Len(CallsOf(u, "completion")) <= 1
        /\ pc[u] = "done" =>
              /\ Len(CallsOf(u, "completion")) = 1
              /\ HasResult(u) /\ ~Result(u).none
              /\ Len(msgs) >= 1
              /\ \A i \in 1..Len(msgs) : msgs[i].ok
              /\ ConcatTexts(msgs) = Result(u).s

C5_Witness ==
    \E u \in U : /\ pc[u] = "done"
                 /\ Len(CallsOf(u, "completion")) = 1
                 /\ Len(CallsOf(u, "message")) = 2
                 /\ api[u].len = ChunkSize + 1

\* C6: within one text update the typing action comes first, the completion
\* request only after the typing action completed, and replies only after the
\* completion call returned and the handler took its result.
C6_Order ==
    \A i \in 1..Len(calls) :
        LET c == calls[i] IN
        IsMessage(c.u) =>
          /\ c.op = "typing" => \A j \in 1..(i - 1) : calls[j].u # c.u
          /\ c.op = "completion" =>
                /\ \E j \in 1..(i - 1) :
                      calls[j].u = c.u /\ calls[j].op = "typing" /\ calls[j].ok
                /\ \A j \in 1..(i - 1) : calls[j].u = c.u => calls[j].op = "typing"
          /\ c.op = "message" =>
                /\ \E j \in 1..(i - 1) : calls[j].u = c.u /\ calls[j].op = "completion"
                /\ worker[c.u].state = "joined"
                /\ \A j \in (i + 1)..Len(calls) : calls[j].u = c.u => calls[j].op = "message"

C6_Witness ==
    \E u \in U : /\ pc[u] = "done"
                 /\ Len(calls) = 3
                 /\ calls[1] = Call(u, "typing", upd[u].chat, <<>>, "", TRUE)
                 /\ calls[2].op = "completion"
                 /\ calls[3].op = "message"

\* C7: while a completion call is in flight for one update, the next update
\* waiting in the queue can be taken up.
C7_Responsive ==
    \A u \in U : (worker[u].state \in {"submitted", "inflight"} /\ dispatched < NumUpdates) =>
        ENABLED (\E v \in U : Dispatch(v))

\* C8 as stated: with the token, the API key or the model identifier missing,
\* empty or a placeholder, the serving loop is never entered.
C8_Original ==
    (\/ config.TELEGRAM_BOT_TOKEN \in {None, Str(<<>>), Str(TOKEN_PLACEHOLDER)}
     \/ config.CEREBRAS_API_KEY \in {None, Str(<<>>)}
     \/ config.MODEL_ID \in {None, Str(<<>>)})
    => (main_pc # "serving" /\ dispatched = 0)

\* C8 amended: with the token missing, empty or the placeholder the serving
\* loop is never entered and no update is dispatched; whenever the process has
\* exited at startup (bad token, or the client constructor raised) its status
\* is 1, a critical record was logged and no update was dispatched.
C8_Amended ==
    /\ config.TELEGRAM_BOT_TOKEN \in {None, Str(<<>>), Str(TOKEN_PLACEHOLDER)} =>
          /\ main_pc \in {"init_client", "main", "exited"}
          /\ dispatched = 0
    /\ main_pc = "exited" =>
          /\ exit_status = 1
          /\ dispatched = 0
          /\ errlog = <<[level |-> "CRITICAL", u |-> 0]>>
    /\ main_pc = "serving" => exit_status = -1 /\ errlog = SelectSeq(errlog, LAMBDA e : e.u # 0)

C8_Witness ==
    /\ main_pc = "exited"
    /\ exit_status = 1
    /\ config.TELEGRAM_BOT_TOKEN = Str(TOKEN_PLACEHOLDER)
    /\ config.CEREBRAS_API_KEY = ValidKey

\* C9: /start causes exactly one outbound message, containing the sender's
\* first name and the configured model identifier, and neither a typing action
\* nor a completion request.
C9_Start ==
    \A u \in U : IsStart(u) =>
        LET mine == SelectSeq(calls, LAMBDA c : c.u = u) IN
        /\ Len(mine) <= 1
        /\ Ended(u) => Len(mine) = 1
        /\ worker[u].state = "idle"
        /\ \A i \in 1..Len(mine) :
              /\ mine[i].op = "message"
              /\ mine[i].chat = upd[u].chat
              /\ mine[i].parse_mode = "MARKDOWN"
              /\ Contains(mine[i].text, upd[u].first_name)
              /\ Contains(mine[i].text, Format(config.MODEL_ID))

C9_Witness ==
    \E u \in U : /\ IsStart(u)
                 /\ pc[u] = "done"
                 /\ config.MODEL_ID = ValidModel
                 /\ Len(calls) = 1
                 /\ Contains(calls[1].text, <<"B", "o">> \o <<"!">>)

====
